---- MODULE Spec2Model ----
(***************************************************************************)
(* A model of lib/node-progress.js: the ProgressBar object, its tick /      *)
(* update / render / terminate methods, the throttle timer and the sink.    *)
(*                                                                          *)
(* Strings are sequences of one-character strings.  JavaScript values that  *)
(* an argument may take (undefined, a number, an object) are tagged         *)
(* records.  Time is in milliseconds.                                       *)
(***************************************************************************)
EXTENDS Integers, Sequences, FiniteSets, TLC

----------------------------------------------------------------------------
(* Bounds of the model.                                                     *)

\* host calls (tick, update, render) made on one bar
MaxCalls == 3
\* the clock stops advancing at this many milliseconds
MaxClock == 500
\* largest total a bar is constructed with
MaxTotal == 2

\* milliseconds added by one advance of the clock
ClockStep == 500

----------------------------------------------------------------------------
(* JavaScript values.                                                       *)

Undefined == [t |-> "undefined"]
Num(n) == [t |-> "number", v |-> n]
Obj(o) == [t |-> "object", v |-> o]
Str(s) == [t |-> "string", v |-> s]

\* ToBoolean: undefined and 0 are falsy, an object is truthy
Truthy(x) ==
  CASE x.t = "undefined" -> FALSE
    [] x.t = "number" -> x.v # 0
    [] x.t = "object" -> TRUE

\* a || b
OrElse(a, b) == IF Truthy(a) THEN a ELSE b

----------------------------------------------------------------------------
(* Strings.                                                                 *)

Digits == <<"0", "1", "2", "3", "4", "5", "6", "7", "8", "9">>

RECURSIVE NatToStr(_)
NatToStr(n) ==
  IF n < 10 THEN <<Digits[n + 1]>>
  ELSE NatToStr(n \div 10) \o <<Digits[(n % 10) + 1]>>

\* Number.prototype.toString of an integer
IntToStr(n) == IF n < 0 THEN <<"-">> \o NatToStr(-n) ELSE NatToStr(n)

\* String.prototype.indexOf, 1-based, 0 when pat does not occur
IndexOf(s, pat) ==
  LET hits == {i \in 1..(Len(s) - Len(pat) + 1) : SubSeq(s, i, i + Len(pat) - 1) = pat}
  IN IF hits = {} THEN 0 ELSE CHOOSE i \in hits : \A j \in hits : i <= j

\* String.prototype.replace with a string pattern: the first occurrence only
Replace(s, pat, rep) ==
  LET i == IndexOf(s, pat)
  IN IF i = 0 THEN s
     ELSE SubSeq(s, 1, i - 1) \o rep \o SubSeq(s, i + Len(pat), Len(s))

\* Array(n + 1).join(ch): n copies of ch
RECURSIVE Repeat(_, _)
Repeat(ch, n) == IF n <= 0 THEN <<>> ELSE ch \o Repeat(ch, n - 1)

----------------------------------------------------------------------------
(* Numbers.  A number that may be NaN or infinite is a record: Rat(n, d) is  *)
(* the quotient n / d, NotFinite is NaN and the infinities.                 *)

NotFinite == [finite |-> FALSE, n |-> 0, d |-> 1]
Rat(n, d) == IF d < 0 THEN [finite |-> TRUE, n |-> -n, d |-> -d]
             ELSE [finite |-> TRUE, n |-> n, d |-> d]
Abs(n) == IF n < 0 THEN -n ELSE n

\* Math.floor(n / d), d > 0
Floor(n, d) == n \div d

\* Math.round(n / d), d > 0: the nearest integer, a half rounds up
Round(n, d) == (2 * n + d) \div (2 * d)

\* Number.prototype.toFixed(0) of n / d >= 0
ToFixed0(n, d) == NatToStr(Round(n, d))

\* Number.prototype.toFixed(1) of n / d: the magnitude is rounded to the
\* nearest tenth, a half rounds away from zero, and any n / d < 0 keeps its sign
ToFixed1(n, d) ==
  LET tenths == Round(10 * Abs(n), d)
      body == NatToStr(tenths \div 10) \o <<".">> \o <<Digits[(tenths % 10) + 1]>>
  IN IF n < 0 THEN <<"-">> \o body ELSE body

----------------------------------------------------------------------------
(* The fields of one ProgressBar, its sink and its environment.             *)

VARIABLES
  ctorArgs,               \* the arguments the constructor was called with: [fmt, options]
  fmt,                    \* this.fmt: the template (Undefined if none was passed)
  total,                  \* this.total
  units,                  \* this.units: [labels, values]
  width,                  \* this.width
  clear,                  \* this.clear
  stream,                 \* this.stream: [isTTY, columns]
  curr,                   \* this.curr
  start,                  \* this.start: a time, or NoStart while undefined
  tokens,                 \* this.tokens: a sequence of <<key, value>>
  lastDraw,               \* this.lastDraw
  complete,               \* this.complete (FALSE while undefined)
  renderThrottleTimeout,  \* this.renderThrottleTimeout: a timer id, or NoTimer
  pending,                \* the timers setTimeout has armed and that have neither fired nor been cleared
  now,                    \* the value new Date reads
  events,                 \* what the last call or timer did: sink operations and calls, in order
  lastCall,               \* the last call or timer and its arguments
  nCalls,                 \* host calls made so far
  nTerminate,             \* times tick has invoked terminate()
  nCallback               \* times tick has invoked the completion callback

vars == <<ctorArgs, fmt, total, units, width, clear, stream, curr, start, tokens, lastDraw,
          complete, renderThrottleTimeout, pending, now, events, lastCall,
          nCalls, nTerminate, nCallback>>

\* this.start before the first assignment
NoStart == -1
\* this.renderThrottleTimeout while undefined or null
NoTimer == 0

\* the object and its environment as one value, for the methods below
Bar ==
  [fmt |-> fmt, total |-> total, units |-> units, width |-> width, clear |-> clear,
   stream |-> stream, curr |-> curr, start |-> start, tokens |-> tokens,
   lastDraw |-> lastDraw, complete |-> complete,
   renderThrottleTimeout |-> renderThrottleTimeout, pending |-> pending,
   now |-> now, events |-> <<>>, nTerminate |-> nTerminate, nCallback |-> nCallback]

Event(op, str) == [op |-> op, str |-> str]
Emit(b, op, str) == [b EXCEPT !.events = Append(@, Event(op, str))]

----------------------------------------------------------------------------
(* ProgressBar.mkUnits: the entries of the mapping sorted ascending by      *)
(* value.  obj is the mapping as a sequence of <<label, value>> in key      *)
(* order; a label is a string, as every string a sequence of characters.    *)

RECURSIVE SortByValue(_)
SortByValue(arr) ==
  IF arr = <<>> THEN <<>>
  ELSE LET least == CHOOSE i \in 1..Len(arr) :
                      /\ \A j \in 1..Len(arr) : arr[i][2] <= arr[j][2]
                      /\ \A j \in 1..(i - 1) : arr[j][2] # arr[i][2]
           rest == [k \in 1..(Len(arr) - 1) |-> IF k < least THEN arr[k] ELSE arr[k + 1]]
       IN <<arr[least]>> \o SortByValue(rest)

mkUnits(obj) ==
  LET arr == SortByValue(obj)
  IN [labels |-> [i \in 1..Len(arr) |-> arr[i][1]],
      values |-> [i \in 1..Len(arr) |-> arr[i][2]]]

----------------------------------------------------------------------------
(* ProgressBar.prototype.estimate.  elapsed is Rat(ms, 1) or NotFinite      *)
(* (NaN); percent is a pair <<n, d>> standing for n / d.                    *)

\* elapsed * (total / curr - 1), or 0 at 100 percent
Remaining(b, elapsed, percent) ==
  IF percent[1] = 100 * percent[2] THEN Rat(0, 1)
  ELSE IF ~elapsed.finite \/ b.curr = 0 THEN NotFinite
  ELSE Rat(elapsed.n * (b.total - b.curr), b.curr)

\* while (i > 0 && eta < values[i]) i--
RECURSIVE SelectUnit(_, _, _)
SelectUnit(eta, values, i) ==
  IF i > 1 /\ eta.n < values[i] * eta.d THEN SelectUnit(eta, values, i - 1) ELSE i

\* while (i > 0) eta /= values[i--]
RECURSIVE Scale(_, _, _)
Scale(eta, values, i) ==
  IF i > 1 THEN Scale(Rat(eta.n, eta.d * values[i]), values, i - 1) ELSE eta

estimate(b, elapsed, percent) ==
  LET ms == Remaining(b, elapsed, percent)
      values == b.units.values
      labels == b.units.labels
      last == Len(values)
  IN IF ~ms.finite
     THEN [eta |-> <<"0", ".", "0">>, suffix |-> labels[last]]
     ELSE LET eta == Rat(ms.n, ms.d * 1000)
              i == SelectUnit(eta, values, last)
              scaled == Scale(eta, values, i)
          IN [value |-> ToFixed1(scaled.n, scaled.d), suffix |-> labels[i]]

\* the string that replace() inserts for obj[field]: "undefined" if the field is absent
FieldStr(obj, field) ==
  IF field \in DOMAIN obj THEN obj[field]
  ELSE <<"u", "n", "d", "e", "f", "i", "n", "e", "d">>

----------------------------------------------------------------------------
(* ProgressBar.prototype.render.                                            *)

Min(a, b) == IF a < b THEN a ELSE b
Max(a, b) == IF a > b THEN a ELSE b

\* clearPending that forgets the handle without clearing the timer
clearPending_HandleOnly(b) == [b EXCEPT !.renderThrottleTimeout = NoTimer]

\* clearTimeout(this.renderThrottleTimeout); this.renderThrottleTimeout = null
clearPending(b) ==
  [b EXCEPT !.pending = @ \ {b.renderThrottleTimeout},
            !.renderThrottleTimeout = NoTimer]

\* if (tokens) this.tokens = tokens
setTokens(b, tok) == IF Truthy(tok) THEN [b EXCEPT !.tokens = tok.v] ELSE b

\* Math.min(Math.max(this.curr / this.total, 0), 1) as <<n, d>>, total > 0
Ratio(b) == <<Min(Max(b.curr, 0), b.total), b.total>>

\* new Date - this.start
Elapsed(b) == IF b.start = NoStart THEN NotFinite ELSE Rat(b.now - b.start, 1)

\* the template with the percentages and timestamps filled in
Populate(b) ==
  LET ratio == Ratio(b)
      percent == <<100 * ratio[1], ratio[2]>>
      elapsed == Elapsed(b)
      eta == estimate(b, elapsed, percent)
      s1 == Replace(b.fmt, <<":", "c", "u", "r", "r", "e", "n", "t">>, IntToStr(b.curr))
      s2 == Replace(s1, <<":", "t", "o", "t", "a", "l">>, IntToStr(b.total))
      s3 == Replace(s2, <<":", "e", "l", "a", "p", "s", "e", "d">>,
                    IF ~elapsed.finite THEN <<"0", ".", "0">>
                    ELSE ToFixed1(elapsed.n, 1000))
      s4 == Replace(s3, <<":", "e", "t", "a">>, FieldStr(eta, "value"))
      s5 == Replace(s4, <<":", "u", "n", "i", "t">>, FieldStr(eta, "suffix"))
  IN Replace(s5, <<":", "p", "e", "r", "c", "e", "n", "t">>,
             ToFixed0(percent[1], percent[2]) \o <<"%">>)

BarToken == <<":", "b", "a", "r">>

\* Math.min(this.width, Math.max(0, this.stream.columns - str.replace(':bar', '').length))
BarWidth(b, str) ==
  Min(b.width, Max(0, b.stream.columns - Len(Replace(str, BarToken, <<>>))))

\* the complete and the incomplete glyphs
BarGlyphs(b, w) ==
  LET ratio == Ratio(b)
      completeLength == Round(w * ratio[1], ratio[2])
  IN Repeat(<<"=">>, completeLength) \o Repeat(<<"-">>, w - completeLength)

\* Array(completeLength + 1) or Array(width - completeLength + 1) has a
\* negative length: RangeError
BarThrows(b, w) ==
  LET ratio == Ratio(b)
      completeLength == Round(w * ratio[1], ratio[2])
  IN completeLength + 1 < 0 \/ w - completeLength + 1 < 0

\* for (var key in this.tokens) str = str.replace(':' + key, this.tokens[key])
RECURSIVE ReplaceTokens(_, _)
ReplaceTokens(str, tok) ==
  IF tok = <<>> THEN str
  ELSE ReplaceTokens(Replace(str, <<":">> \o tok[1][1], tok[1][2]), Tail(tok))

\* the line render computes
Line(b) ==
  LET str == Populate(b)
      filled == Replace(str, BarToken, BarGlyphs(b, BarWidth(b, str)))
  IN ReplaceTokens(filled, b.tokens)

\* draw without the comparison against the last drawn line
draw_Always(b, str) ==
  [Emit(Emit(Emit(b, "cursorTo", <<"0">>), "write", str), "clearLine", <<"1">>)
     EXCEPT !.lastDraw = str]

\* if (this.lastDraw !== str) { cursorTo(0); write(str); clearLine(1); lastDraw = str }
draw(b, str) ==
  IF b.lastDraw # str
  THEN [Emit(Emit(Emit(b, "cursorTo", <<"0">>), "write", str), "clearLine", <<"1">>)
          EXCEPT !.lastDraw = str]
  ELSE b

\* the last thing the call did was to throw
Threw(b) == b.events # <<>> /\ b.events[Len(b.events)].op = "throw"

\* render without the test of stream.isTTY
render_AnySink(b, tok) ==
  LET b1 == Emit(b, "render", IntToStr(b.curr))
      b2 == setTokens(clearPending(b1), tok)
  IN IF BarThrows(b2, BarWidth(b2, Populate(b2)))
     THEN Emit(b2, "throw", <<"R", "a", "n", "g", "e", "E", "r", "r", "o", "r">>)
     ELSE draw(b2, Line(b2))

render(b, tok) ==
  LET b1 == Emit(b, "render", IntToStr(b.curr))
      b2 == setTokens(clearPending(b1), tok)
  IN IF ~b2.stream.isTTY THEN b2
     ELSE IF BarThrows(b2, BarWidth(b2, Populate(b2)))
     THEN Emit(b2, "throw", <<"R", "a", "n", "g", "e", "E", "r", "r", "o", "r">>)
     ELSE draw(b2, Line(b2))

----------------------------------------------------------------------------
(* ProgressBar.prototype.terminate.                                         *)

terminate(b) ==
  LET b1 == Emit(b, "terminate", <<>>)
  IN IF b1.clear /\ b1.stream.isTTY
     THEN Emit(Emit(b1, "clearLine", <<>>), "cursorTo", <<"0">>)
     ELSE Emit(b1, "write", <<"\n">>)

----------------------------------------------------------------------------
(* ProgressBar.prototype.log.  a is the sequence of the arguments, strings. *)

\* util.format(a[1], a[2], ...): each further argument takes the place of the
\* next %s of a[1]; arguments left over are appended after a space
RECURSIVE Format(_)
Format(a) ==
  IF Len(a) = 1 THEN a[1]
  ELSE IF IndexOf(a[1], <<"%", "s">>) # 0
  THEN LET i == IndexOf(a[1], <<"%", "s">>)
       IN SubSeq(a[1], 1, i - 1) \o a[2]
            \o Format(<<SubSeq(a[1], i + 2, Len(a[1]))>> \o SubSeq(a, 3, Len(a)))
  ELSE Format(<<a[1] \o <<" ">> \o a[2]>> \o SubSeq(a, 3, Len(a)))

\* log that rewrites the progress line before the message
log_MessageLast(b, a) ==
  LET b1 == IF b.stream.isTTY
            THEN Emit(Emit(b, "clearLine", <<>>), "cursorTo", <<"0">>)
            ELSE b
      b2 == IF b1.stream.isTTY THEN Emit(b1, "write", b1.lastDraw) ELSE b1
  IN Emit(b2, "write", Format(a) \o <<"\n">>)

log(b, a) ==
  LET b1 == IF b.stream.isTTY
            THEN Emit(Emit(b, "clearLine", <<>>), "cursorTo", <<"0">>)
            ELSE b
      b2 == Emit(b1, "write", Format(a) \o <<"\n">>)
  IN IF b2.stream.isTTY THEN Emit(b2, "write", b2.lastDraw) ELSE b2

----------------------------------------------------------------------------
(* ProgressBar.prototype.tick and ProgressBar.prototype.update.             *)

\* defaultLen without the test for 0: len = len || 1
defaultLen_ZeroIsMissing(len) == OrElse(len, Num(1))

\* if (len !== 0) len = len || 1
defaultLen(len) ==
  IF ~(len.t = "number" /\ len.v = 0) THEN OrElse(len, Num(1)) ELSE len

\* swapTokens that resets len and drops the object
swapTokens_Dropped(len, tok) == IF len.t = "object" THEN <<Num(1), tok>> ELSE <<len, tok>>

\* if ('object' == typeof len) tokens = len, len = 1: the pair <<len, tokens>>
swapTokens(len, tok) == IF len.t = "object" THEN <<Num(1), len>> ELSE <<len, tok>>

\* startTime that assigns only while this.start is undefined
startTime_Once(b) ==
  IF 0 = b.curr /\ b.start = NoStart THEN [b EXCEPT !.start = b.now] ELSE b

\* if (0 == this.curr) this.start = new Date
startTime(b) == IF 0 = b.curr THEN [b EXCEPT !.start = b.now] ELSE b

\* advance with the sign of len lost
advance_Magnitude(b, len) == [b EXCEPT !.curr = @ + Abs(len)]

\* this.curr += len
advance(b, len) == [b EXCEPT !.curr = @ + len]

\* the handle setTimeout returns: a timer that is not armed
NewTimer(b) == CHOOSE id \in 1..(Cardinality(b.pending) + 1) : id \notin b.pending

\* scheduleRender without the test of the pending handle
scheduleRender_Unguarded(b) ==
  LET id == NewTimer(b)
  IN [Emit(b, "setTimeout", <<>>) EXCEPT !.renderThrottleTimeout = id,
                                         !.pending = @ \cup {id}]

\* scheduleRender with the test inverted: a timer is armed only over another
scheduleRender_Inverted(b) ==
  IF b.renderThrottleTimeout # NoTimer
  THEN LET id == NewTimer(b)
       IN [Emit(b, "setTimeout", <<>>) EXCEPT !.renderThrottleTimeout = id,
                                              !.pending = @ \cup {id}]
  ELSE b

\* if (!this.renderThrottleTimeout) this.renderThrottleTimeout = setTimeout(...)
scheduleRender(b) ==
  IF b.renderThrottleTimeout = NoTimer
  THEN LET id == NewTimer(b)
       IN [Emit(b, "setTimeout", <<>>) EXCEPT !.renderThrottleTimeout = id,
                                              !.pending = @ \cup {id}]
  ELSE b

\* this.callback(this)
callback(b) == [Emit(b, "callback", <<>>) EXCEPT !.nCallback = @ + 1]

\* progressComplete with the final render after terminate() and the callback
progressComplete_RenderLast(b) ==
  IF b.curr >= b.total
  THEN LET b2 == [b EXCEPT !.complete = TRUE]
           b3 == callback([terminate(b2) EXCEPT !.nTerminate = @ + 1])
       IN IF b3.renderThrottleTimeout # NoTimer THEN render(b3, Undefined) ELSE b3
  ELSE b

\* if (this.curr >= this.total) { render; complete = true; terminate(); callback(this) }
progressComplete(b) ==
  IF b.curr >= b.total
  THEN LET b1 == IF b.renderThrottleTimeout # NoTimer THEN render(b, Undefined) ELSE b
           b2 == [b1 EXCEPT !.complete = TRUE]
           b3 == [terminate(b2) EXCEPT !.nTerminate = @ + 1]
       IN IF Threw(b1) THEN b1 ELSE callback(b3)
  ELSE b

tick(b, len, tok) ==
  LET args == swapTokens(defaultLen(len), tok)
      b1 == setTokens(b, args[2])
      b2 == advance(startTime(b1), args[1].v)
  IN progressComplete(scheduleRender(b2))

\* update that rounds the goal to the nearest tick
update_Rounded(b, ratio, tok) ==
  LET goal == Round(ratio[1] * b.total, ratio[2])
      delta == goal - b.curr
  IN tick(b, Num(delta), tok)

\* ratio is the pair <<n, d>> standing for n / d
update(b, ratio, tok) ==
  LET goal == Floor(ratio[1] * b.total, ratio[2])
      delta == goal - b.curr
  IN tick(b, Num(delta), tok)

----------------------------------------------------------------------------
(* Construction.                                                            *)

\* ":bar :current/:total"
FmtCount == <<":", "b", "a", "r", " ", ":", "c", "u", "r", "r", "e", "n", "t", "/",
              ":", "t", "o", "t", "a", "l">>
\* ":percent :elapsed :eta:unit :x"
FmtTime == <<":", "p", "e", "r", "c", "e", "n", "t", " ", ":", "e", "l", "a", "p", "s", "e", "d",
             " ", ":", "e", "t", "a", ":", "u", "n", "i", "t", " ", ":", "x">>
Formats == {FmtCount, FmtTime}

\* { s: 1 }
SecondsOnly == << <<<<"s">>, 1>> >>
\* { h: 3600, m: 60, s: 1 }
HoursMinutesSeconds == << <<<<"h">>, 3600>>, <<<<"m">>, 60>>, <<<<"s">>, 1>> >>
\* options.units absent
NoUnits == <<>>
UnitOptions == {NoUnits, HoursMinutesSeconds}

\* the sinks: a terminal of 12 columns, and a sink that is not a terminal
Terminal == [isTTY |-> TRUE, columns |-> 12]
Pipe == [isTTY |-> FALSE, columns |-> 0]
Streams == {Terminal, Pipe}

\* process.stderr
Stderr == Terminal

\* options.width: absent (0), or 2
WidthOptions == {0, 2}

\* the tokens objects a caller passes
TokenObjects == {<< <<<<"x">>, <<"a", "b", "c">>>> >>}

\* the arguments of the calls
LenArgs == {Undefined, Num(-1), Num(0), Num(1), Num(2)} \cup {Obj(o) : o \in TokenObjects}
TokenArgs == {Undefined} \cup {Obj(o) : o \in TokenObjects}
RatioArgs == {<<0, 1>>, <<1, 2>>, <<1, 1>>}

NoCall == [op |-> "new", len |-> Undefined, tokens |-> Undefined, ratio |-> <<0, 1>>, msg |-> <<>>]

\* an options object; total is a JavaScript value, width 0 and units <<>> are
\* the absent (or falsy) option
Options(t, u, w, c, s) ==
  Obj([total |-> t, units |-> u, width |-> w, clear |-> c, stream |-> s])

\* the assignments of the constructor, lines 60-73, for an options object o
Fields(f, o) ==
  [fmt |-> IF f.t = "string" THEN f.v ELSE f,
   total |-> o.total.v,
   units |-> mkUnits(IF o.units # NoUnits THEN o.units ELSE SecondsOnly),
   width |-> IF o.width # 0 THEN o.width ELSE o.total.v,
   clear |-> o.clear,
   stream |-> o.stream]

NoFields ==
  [fmt |-> <<>>, total |-> 0, units |-> mkUnits(<<>>), width |-> 0, clear |-> FALSE,
   stream |-> Pipe]

\* reading options.stream of undefined
TypeError == <<"T", "y", "p", "e", "E", "r", "r", "o", "r">>
FormatRequired == <<"f", "o", "r", "m", "a", "t", " ", "r", "e", "q", "u", "i", "r", "e", "d">>
TotalRequired == <<"t", "o", "t", "a", "l", " ", "r", "e", "q", "u", "i", "r", "e", "d">>

\* new ProgressBar(fmt, options): the error thrown (<<>> if none) and the fields
ProgressBar(f, options) ==
  IF options.t = "undefined"
  THEN [error |-> TypeError, bar |-> NoFields]
  ELSE IF options.t = "number"
  THEN [error |-> <<>>, bar |-> Fields(f, Options(options, NoUnits, 0, FALSE, Stderr).v)]
  ELSE IF f.t # "string"
  THEN [error |-> FormatRequired, bar |-> NoFields]
  ELSE IF options.v.total.t # "number"
  THEN [error |-> TotalRequired, bar |-> NoFields]
  ELSE [error |-> <<>>, bar |-> Fields(f, options.v)]

\* the constructor calls the bars of this model are made with
Constructions ==
  {[fmt |-> Str(f), options |-> Options(Num(t), u, w, c, s)] :
     f \in Formats, t \in 1..MaxTotal, u \in UnitOptions, w \in WidthOptions,
     c \in BOOLEAN, s \in Streams}

\* the state after new ProgressBar(a.fmt, a.options) returned
Constructed(a) ==
  LET new == ProgressBar(a.fmt, a.options)
  IN /\ new.error = <<>>
     /\ ctorArgs = a
     /\ fmt = new.bar.fmt
     /\ total = new.bar.total
     /\ units = new.bar.units
     /\ width = new.bar.width
     /\ clear = new.bar.clear
     /\ stream = new.bar.stream
     /\ curr = 0
     /\ start = NoStart
     /\ tokens = <<>>
     /\ lastDraw = <<>>
     /\ complete = FALSE
     /\ renderThrottleTimeout = NoTimer
     /\ pending = {}
     /\ now = 0
     /\ events = <<>>
     /\ lastCall = NoCall
     /\ nCalls = 0
     /\ nTerminate = 0
     /\ nCallback = 0

Init == \E a \in Constructions : Constructed(a)

----------------------------------------------------------------------------
(* The calls of the host, the timer and the clock.                          *)

\* the fields take the values of b; the configuration is never assigned
Becomes(b) ==
  /\ curr' = b.curr
  /\ start' = b.start
  /\ tokens' = b.tokens
  /\ lastDraw' = b.lastDraw
  /\ complete' = b.complete
  /\ renderThrottleTimeout' = b.renderThrottleTimeout
  /\ pending' = b.pending
  /\ events' = b.events
  /\ nTerminate' = b.nTerminate
  /\ nCallback' = b.nCallback
  /\ UNCHANGED <<ctorArgs, fmt, total, units, width, clear, stream, now>>

CallTick ==
  /\ nCalls < MaxCalls
  /\ \E len \in LenArgs, tok \in TokenArgs :
       /\ Becomes(tick(Bar, len, tok))
       /\ lastCall' = [op |-> "tick", len |-> len, tokens |-> tok, ratio |-> <<0, 1>>, msg |-> <<>>]
  /\ nCalls' = nCalls + 1

CallUpdate ==
  /\ nCalls < MaxCalls
  /\ \E ratio \in RatioArgs :
       /\ Becomes(update(Bar, ratio, Undefined))
       /\ lastCall' = [op |-> "update", len |-> Undefined, tokens |-> Undefined, ratio |-> ratio, msg |-> <<>>]
  /\ nCalls' = nCalls + 1

CallRender ==
  /\ nCalls < MaxCalls
  /\ \E tok \in TokenArgs :
       /\ Becomes(render(Bar, tok))
       /\ lastCall' = [op |-> "render", len |-> Undefined, tokens |-> tok, ratio |-> <<0, 1>>, msg |-> <<>>]
  /\ nCalls' = nCalls + 1

\* the record of a call made by the timer
TimerCall ==
  [op |-> "timer", len |-> Undefined, tokens |-> Undefined, ratio |-> <<0, 1>>, msg |-> <<>>]

\* an armed timer fires and calls render with no argument
TimerFires ==
  /\ \E id \in pending :
       Becomes(render([Bar EXCEPT !.pending = @ \ {id}], Undefined))
  /\ lastCall' = TimerCall
  /\ UNCHANGED nCalls

\* the step of TimerFires, told by what enables it and by the call it
\* records: no other action records TimerCall
TimerFired ==
  /\ pending # {}
  /\ lastCall' = TimerCall

ClockAdvances ==
  /\ now < MaxClock
  /\ now' = now + ClockStep
  /\ events' = <<>>
  /\ lastCall' = [op |-> "clock", len |-> Undefined, tokens |-> Undefined, ratio |-> <<0, 1>>, msg |-> <<>>]
  /\ UNCHANGED <<ctorArgs, fmt, total, units, width, clear, stream, curr, start, tokens, lastDraw,
                 complete, renderThrottleTimeout, pending, nCalls, nTerminate, nCallback>>

\* the arguments of log: ("hi"), ("%s!", "ok"), ("a", "b")
LogArgs ==
  {<< <<"h", "i">> >>, << <<"%", "s", "!">>, <<"o", "k">> >>, << <<"a">>, <<"b">> >>}

CallLog ==
  /\ nCalls < MaxCalls
  /\ \E a \in LogArgs :
       /\ Becomes(log(Bar, a))
       /\ lastCall' = [op |-> "log", len |-> Undefined, tokens |-> Undefined,
                       ratio |-> <<0, 1>>, msg |-> a]
  /\ nCalls' = nCalls + 1

Next == CallTick \/ CallUpdate \/ CallRender \/ TimerFires \/ ClockAdvances

Spec == Init /\ [][Next]_vars

SpecTicks == Init /\ [][CallTick \/ TimerFires \/ ClockAdvances]_vars

----------------------------------------------------------------------------
(* The constructor applied to arguments of every shape.                     *)

\* the first argument: absent, a number, a template
FmtArgs == {Undefined, Num(5)} \cup {Str(f) : f \in Formats}

\* options.total: absent, the string "5", a number
TotalArgs == {Undefined, Str(<<"5">>)} \cup {Num(t) : t \in 1..MaxTotal}

\* the second argument: absent, a bare number, an options object
OptionsArgs ==
  {Undefined} \cup {Num(t) : t \in 1..MaxTotal}
    \cup {Options(t, u, w, FALSE, s) :
            t \in TotalArgs, u \in UnitOptions, w \in WidthOptions, s \in Streams}

NotCalled == [op |-> "none", len |-> Undefined, tokens |-> Undefined, ratio |-> <<0, 1>>, msg |-> <<>>]

\* before the constructor is called there is no bar
InitNew ==
  /\ ctorArgs \in [fmt : FmtArgs, options : OptionsArgs]
  /\ fmt = NoFields.fmt
  /\ total = NoFields.total
  /\ units = NoFields.units
  /\ width = NoFields.width
  /\ clear = NoFields.clear
  /\ stream = NoFields.stream
  /\ curr = 0
  /\ start = NoStart
  /\ tokens = <<>>
  /\ lastDraw = <<>>
  /\ complete = FALSE
  /\ renderThrottleTimeout = NoTimer
  /\ pending = {}
  /\ now = 0
  /\ events = <<>>
  /\ lastCall = NotCalled
  /\ nCalls = 0
  /\ nTerminate = 0
  /\ nCallback = 0

\* new ProgressBar(ctorArgs.fmt, ctorArgs.options): it throws, or the fields are assigned
CallNew ==
  /\ lastCall.op = "none"
  /\ LET new == ProgressBar(ctorArgs.fmt, ctorArgs.options)
         bar == IF new.error = <<>> THEN new.bar ELSE NoFields
     IN /\ events' = IF new.error = <<>> THEN <<>> ELSE <<Event("throw", new.error)>>
        /\ fmt' = bar.fmt
        /\ total' = bar.total
        /\ units' = bar.units
        /\ width' = bar.width
        /\ clear' = bar.clear
        /\ stream' = bar.stream
  /\ lastCall' = NoCall
  /\ UNCHANGED <<ctorArgs, curr, start, tokens, lastDraw, complete, renderThrottleTimeout,
                 pending, now, nCalls, nTerminate, nCallback>>

SpecNew == InitNew /\ [][CallNew]_vars

----------------------------------------------------------------------------
(* Bars of every configured width on wide and narrow terminals.             *)

\* ":bar :x"
FmtBarToken == <<":", "b", "a", "r", " ", ":", "x">>

\* a terminal of 6 columns
NarrowTerminal == [isTTY |-> TRUE, columns |-> 6]

\* options.width: negative, 0 (or absent), smaller and larger than the space left
BarWidthOptions == {-2, -1, 0, 1, 5}

BarConstructions ==
  {[fmt |-> Str(f), options |-> Options(Num(t), NoUnits, w, FALSE, s)] :
     f \in {FmtCount, FmtBarToken}, t \in 1..MaxTotal, w \in BarWidthOptions,
     s \in {Terminal, NarrowTerminal}}

InitBar == \E a \in BarConstructions : Constructed(a)

SpecBar == InitBar /\ [][CallTick \/ CallRender \/ TimerFires]_vars

----------------------------------------------------------------------------
(* estimate applied to the states a bar can be in after any number of ticks *)
(* and any time: curr on both sides of 0 and of total, start set or not.    *)

\* { m: 60, s: 1 }
MinutesSeconds == << <<<<"m">>, 60>>, <<<<"s">>, 1>> >>
EstimateUnits == {NoUnits, SecondsOnly, MinutesSeconds, HoursMinutesSeconds}

\* the times new Date reads, in milliseconds: 0, half a second, 90 seconds, 2 hours
EstimateTimes == {0, 500, 90000, 7200000}

\* ratio * 100 as render passes it to estimate
Percent(b) == <<100 * Ratio(b)[1], Ratio(b)[2]>>

InitEstimate ==
  \E t \in 1..MaxTotal, u \in EstimateUnits :
    LET a == [fmt |-> Str(FmtTime), options |-> Options(Num(t), u, 0, FALSE, Terminal)]
        new == ProgressBar(a.fmt, a.options)
    IN /\ ctorArgs = a
       /\ fmt = new.bar.fmt
       /\ total = new.bar.total
       /\ units = new.bar.units
       /\ width = new.bar.width
       /\ clear = new.bar.clear
       /\ stream = new.bar.stream
       /\ curr \in (-1)..(t + 1)
       /\ start \in {NoStart, 0}
       /\ now \in EstimateTimes
       /\ tokens = <<>>
       /\ lastDraw = <<>>
       /\ complete = FALSE
       /\ renderThrottleTimeout = NoTimer
       /\ pending = {}
       /\ events = <<>>
       /\ lastCall = NoCall
       /\ nCalls = 0
       /\ nTerminate = 0
       /\ nCallback = 0

\* this.estimate(elapsed, percent) as render calls it; events holds the
\* value and the suffix that render reads from the result
CallEstimate ==
  /\ lastCall.op = "new"
  /\ LET eta == estimate(Bar, Elapsed(Bar), Percent(Bar))
     IN events' = <<Event("value", FieldStr(eta, "value")),
                    Event("suffix", FieldStr(eta, "suffix"))>>
  /\ lastCall' = [op |-> "estimate", len |-> Undefined, tokens |-> Undefined,
                  ratio |-> <<0, 1>>, msg |-> <<>>]
  /\ UNCHANGED <<ctorArgs, fmt, total, units, width, clear, stream, curr, start, tokens,
                 lastDraw, complete, renderThrottleTimeout, pending, now, nCalls,
                 nTerminate, nCallback>>

SpecEstimate == InitEstimate /\ [][CallEstimate]_vars

\* ticks, with every armed timer firing eventually: setTimeout calls its
\* callback unless the timer is cleared.  The fairness condition is weak
\* fairness of TimerFires, written over TimerFired, whose enabling condition
\* is pending # {}.
LiveConstructions ==
  {[fmt |-> Str(FmtCount), options |-> Options(Num(t), NoUnits, 0, c, s)] :
     t \in 1..MaxTotal, c \in BOOLEAN, s \in Streams}

InitLive == \E a \in LiveConstructions : Constructed(a)

SpecLive ==
  InitLive /\ [][CallTick \/ TimerFires \/ ClockAdvances]_vars /\ WF_lastCall(TimerFired)

\* ticks, renders and log calls
SpecLog == Init /\ [][CallTick \/ CallRender \/ TimerFires \/ CallLog]_vars

----------------------------------------------------------------------------
(* Properties.                                                              *)

\* the increment a tick call adds to curr, after the defaults
Delta(call) == swapTokens(defaultLen(call.len), call.tokens)[1].v

\* floor(ratio * total) for an update call
Goal(call) == Floor(call.ratio[1] * total, call.ratio[2])

Has(ev, op) == \E i \in DOMAIN ev : ev[i].op = op
Count(ev, op) == Cardinality({i \in DOMAIN ev : ev[i].op = op})

\* render drew a line: a cursor move followed by a write
DrewLine(ev) == \E i \in 1..(Len(ev) - 1) : ev[i].op = "cursorTo" /\ ev[i + 1].op = "write"

\* C1: over any sequence of tick calls, terminate() and the completion
\* callback are each invoked at most once, by the first tick that leaves
\* curr >= total; a later tick with a positive increment invokes neither.
C1_CompletesOnce ==
  [][(lastCall'.op = "tick" /\ complete /\ Delta(lastCall') > 0)
       => (nTerminate' = nTerminate /\ nCallback' = nCallback)]_vars

\* C2: at most one render timer is armed, it is the one the handle names; a
\* tick or update made while it is armed arms no other; the handle is empty
\* after any call in which render ran.
C2_OneTimer ==
  /\ [](/\ Cardinality(pending) <= 1
        /\ pending = IF renderThrottleTimeout = NoTimer THEN {} ELSE {renderThrottleTimeout})
  /\ [][/\ (lastCall'.op \in {"tick", "update"} /\ pending # {}) => ~Has(events', "setTimeout")
        /\ Has(events', "render") => renderThrottleTimeout' = NoTimer]_vars

\* a tick found the timer armed, armed none, and the timer is still armed
C2_Witness ==
  /\ lastCall.op = "tick"
  /\ ~Has(events, "setTimeout")
  /\ pending # {}
  /\ curr > 0

\* C3: a tick or update that leaves curr >= total has, in this order and
\* within the call, rendered the final value of curr, run terminate() and
\* invoked the callback, each once, and complete is set.
C3_CompletionOrder ==
  (lastCall.op \in {"tick", "update"} /\ curr >= total) =>
    /\ complete
    /\ Count(events, "render") = 1 /\ Count(events, "terminate") = 1
    /\ Count(events, "callback") = 1
    /\ \E i, j \in DOMAIN events :
         /\ i < j
         /\ events[i] = Event("render", IntToStr(curr))
         /\ events[j].op = "terminate"
         /\ \A k \in (i + 1)..(j - 1) : events[k].op \in {"cursorTo", "write", "clearLine"}
         /\ events[Len(events)] = Event("callback", <<>>)

\* a completing tick on a terminal drew the final line before terminate()
C3_Witness ==
  /\ lastCall.op = "tick"
  /\ curr >= total
  /\ stream.isTTY
  /\ DrewLine(events)
  /\ Has(events, "terminate")

\* C4: once complete is set, no tick, update, render or timer draws a line.
C4_NoDrawAfterCompletion == [][complete => ~DrewLine(events')]_vars

\* C5: curr never decreases.
C5_Monotone == [][curr' >= curr]_vars

\* C5 as amended: curr does not decrease in a tick whose increment is >= 0, in
\* an update whose goal is >= curr, or in a render; it decreases in a tick
\* whose increment is negative and in an update whose goal is below curr.
C5_MonotoneForward ==
  [][/\ (lastCall'.op = "tick" /\ Delta(lastCall') >= 0) => curr' >= curr
     /\ (lastCall'.op = "tick" /\ Delta(lastCall') < 0) => curr' < curr
     /\ (lastCall'.op = "update" /\ Goal(lastCall') >= curr) => curr' >= curr
     /\ (lastCall'.op = "update" /\ Goal(lastCall') < curr) => curr' < curr
     /\ lastCall'.op \in {"render", "timer", "clock"} => curr' = curr]_vars

\* a tick with a negative increment took curr below zero
C5_Witness == lastCall.op = "tick" /\ Delta(lastCall) < 0 /\ curr < 0

\* C6: in every state and for every ratio, update(ratio) does what
\* tick(floor(ratio * total) - curr) does and leaves curr = floor(ratio * total).
C6_UpdateIsTick ==
  \A ratio \in RatioArgs :
    LET goal == Floor(ratio[1] * total, ratio[2])
        after == update(Bar, ratio, Undefined)
    IN /\ after.curr = goal
       /\ after = tick(Bar, Num(goal - curr), Undefined)

\* update(0) brought a completed bar back to 0: a negative increment
C6_Witness ==
  /\ lastCall.op = "update"
  /\ lastCall.ratio = <<0, 1>>
  /\ complete
  /\ curr = 0

\* C7: in every state tick() does what tick(1) does, and tick(tokens) does
\* what tick(1, tokens) does: the same fields, timers and events.
C7_TickDefaults ==
  /\ tick(Bar, Undefined, Undefined) = tick(Bar, Num(1), Undefined)
  /\ \A o \in TokenObjects : tick(Bar, Obj(o), Undefined) = tick(Bar, Num(1), Obj(o))

\* tick(tokens) added 1 and installed the tokens
C7_Witness ==
  /\ lastCall.op = "tick"
  /\ lastCall.len.t = "object"
  /\ tokens = lastCall.len.v
  /\ curr = 2

IsTickZero(call) == call.op = "tick" /\ call.len.t = "number" /\ call.len.v = 0

\* C8: tick(0) leaves curr and total unchanged; if no timer is armed it arms
\* one, which stays armed unless curr >= total; if one is armed it arms none.
C8_TickZero ==
  [][IsTickZero(lastCall') =>
       /\ curr' = curr
       /\ total' = total
       /\ pending = {} => (Count(events', "setTimeout") = 1 /\ (curr < total => pending' # {}))
       /\ pending # {} => ~Has(events', "setTimeout")]_vars

\* tick(0) on a fresh bar armed the timer
C8_Witness ==
  /\ IsTickZero(lastCall)
  /\ nCalls = 1
  /\ curr = 0
  /\ Has(events, "setTimeout")
  /\ pending # {}

\* C9: start is assigned once, by the first tick or update that moves curr
\* away from 0, and never again.
C9_StartSetOnce ==
  [][start' # start =>
       /\ start = NoStart
       /\ lastCall'.op \in {"tick", "update"}
       /\ curr = 0 /\ curr' # 0]_vars

\* C9 as amended: every tick or update made while curr is 0 assigns the
\* current time to start, whatever the increment and whether or not start was
\* assigned before; no other call assigns it.
C9_StartSetAtZero ==
  [][IF lastCall'.op \in {"tick", "update"} /\ curr = 0
     THEN start' = now
     ELSE start' = start]_vars

\* tick(0) at curr = 0 replaced an earlier start time
C9_Witness ==
  /\ IsTickZero(lastCall)
  /\ curr = 0
  /\ nCalls >= 2
  /\ start = now /\ now > 0

\* the sink operations between the call of render and the end of the call or,
\* in a completing tick, the call of terminate()
SinkOpsOfRender(ev) ==
  LET i == CHOOSE k \in DOMAIN ev : ev[k].op = "render"
      ends == {k \in DOMAIN ev : ev[k].op = "terminate"} \cup {Len(ev) + 1}
      j == CHOOSE k \in ends : \A m \in ends : k <= m
  IN SubSeq(ev, i + 1, j - 1)

\* C10: on a terminal, a render whose line equals lastDraw does nothing to the
\* sink and leaves lastDraw; a render whose line differs moves the cursor,
\* writes the line once, clears to the end of line and sets lastDraw to it.
C10_DrawOnlyChanges ==
  [][(stream.isTTY /\ Has(events', "render")) =>
       LET str == Line(Bar')
           drawn == SinkOpsOfRender(events')
       IN IF str = lastDraw
          THEN lastDraw' = lastDraw /\ drawn = <<>>
          ELSE /\ lastDraw' = str
               /\ drawn = <<Event("cursorTo", <<"0">>), Event("write", str),
                            Event("clearLine", <<"1">>)>>]_vars

\* the timer rendered a line equal to the one on the terminal and drew nothing
C10_Witness ==
  /\ lastCall.op = "timer"
  /\ stream.isTTY
  /\ lastDraw # <<>>
  /\ events = <<Event("render", IntToStr(curr))>>

\* the columns a sink may report
ColumnCounts == {0, 6, 12}

\* C11: on a sink that is not a terminal every render - fired by the timer,
\* forced by a completing tick or called directly - does nothing to the sink
\* and leaves lastDraw; what it does is the same whatever the sink reports as
\* its column count.
C11_NoRenderOffTerminal ==
  /\ [][(~stream.isTTY /\ Has(events', "render")) =>
          /\ SinkOpsOfRender(events') = <<>>
          /\ ~DrewLine(events')
          /\ lastDraw' = lastDraw]_vars
  /\ [](~stream.isTTY =>
          \A c \in ColumnCounts :
            LET sink == [stream EXCEPT !.columns = c]
                after == render([Bar EXCEPT !.stream = sink], Undefined)
            IN /\ after.events = <<Event("render", IntToStr(curr))>>
               /\ after.lastDraw = lastDraw
               /\ [after EXCEPT !.stream = stream] = render(Bar, Undefined))

\* the timer rendered on a sink that is not a terminal, after a tick
C11_Witness ==
  /\ ~stream.isTTY
  /\ lastCall.op = "timer"
  /\ events = <<Event("render", IntToStr(curr))>>
  /\ curr > 0

\* what util.format returns for the arguments of LogArgs
Formatted(a) ==
  CASE a = << <<"h", "i">> >> -> <<"h", "i">>
    [] a = << <<"%", "s", "!">>, <<"o", "k">> >> -> <<"o", "k", "!">>
    [] a = << <<"a">>, <<"b">> >> -> <<"a", " ", "b">>

\* C12: log on a terminal clears the line (and returns the cursor to column
\* 0), writes the formatted message and a newline, then writes the last drawn
\* line, in this order and nothing else; on a sink that is not a terminal it
\* only writes the message and a newline.  It changes no field of the bar.
C12_LogOrder ==
  [][lastCall'.op = "log" =>
       /\ events' =
            IF stream.isTTY
            THEN <<Event("clearLine", <<>>), Event("cursorTo", <<"0">>),
                   Event("write", Formatted(lastCall'.msg) \o <<"\n">>),
                   Event("write", lastDraw)>>
            ELSE <<Event("write", Formatted(lastCall'.msg) \o <<"\n">>)>>
       /\ lastDraw' = lastDraw /\ curr' = curr /\ pending' = pending]_vars

\* log("%s!", "ok") on a terminal that shows a progress line
C12_Witness ==
  /\ lastCall.op = "log"
  /\ Len(lastCall.msg) = 2
  /\ stream.isTTY
  /\ lastDraw # <<>>
  /\ events[4] = Event("write", lastDraw)

\* the remaining time in seconds that estimate computes for this state
RemainingSeconds ==
  LET ms == Remaining(Bar, Elapsed(Bar), Percent(Bar))
  IN IF ms.finite THEN Rat(ms.n, ms.d * 1000) ELSE NotFinite

UnitLabels == {units.labels[i] : i \in DOMAIN units.labels}

\* C13: when the remaining time is NaN or infinite, the result of estimate
\* has a field value holding "0.0" and a suffix from the unit table.
C13_NaNGuard ==
  (lastCall.op = "estimate" /\ ~RemainingSeconds.finite) =>
    LET eta == estimate(Bar, Elapsed(Bar), Percent(Bar))
    IN /\ "value" \in DOMAIN eta
       /\ eta.value = <<"0", ".", "0">>
       /\ events[1] = Event("value", <<"0", ".", "0">>)
       /\ eta.suffix \in UnitLabels

\* the unit the claim selects: the largest with secondsPerUnit <= r, else the smallest
LargestUnitWithin(r) ==
  LET fits == {i \in DOMAIN units.values : units.values[i] * r.d <= r.n}
  IN IF fits = {} THEN 1 ELSE CHOOSE i \in fits : \A j \in fits : j <= i

\* C17: for a finite remaining time R the suffix is the largest unit whose
\* secondsPerUnit is <= R (the smallest unit if there is none) and the value
\* is R divided by that unit's secondsPerUnit, to one decimal.
C17_ScaledToUnit ==
  (lastCall.op = "estimate" /\ RemainingSeconds.finite) =>
    LET r == RemainingSeconds
        i == LargestUnitWithin(r)
    IN events = <<Event("value", ToFixed1(r.n, r.d * units.values[i])),
                  Event("suffix", units.labels[i])>>

\* C14: a bar constructed without a units option estimates with the table
\* s = 1, m = 60, h = 3600.
C14_DefaultUnits ==
  (ctorArgs.options.v.units = NoUnits /\ stream.isTTY /\ Has(events, "render")) =>
    units = mkUnits(HoursMinutesSeconds)

\* C19: when a tick or update has returned with curr >= total, no timer is
\* armed and the handle is empty: the final render cleared the timer, whether
\* this call armed it or an earlier one did.
C19_NoTimerAfterCompletion ==
  (lastCall.op \in {"tick", "update"} /\ curr >= total) =>
    /\ pending = {}
    /\ renderThrottleTimeout = NoTimer
    /\ Count(events, "render") = 1

\* a completing tick found the timer an earlier tick had armed, and cleared it
C19_Witness ==
  /\ lastCall.op = "tick"
  /\ curr >= total
  /\ nCalls >= 2
  /\ ~Has(events, "setTimeout")
  /\ Has(events, "render")
  /\ pending = {}

\* C16: the constructor throws, and creates no bar, whenever the template is
\* not a string or the total is not a number, in the options form and in the
\* bare-number form; otherwise it creates a bar with curr = 0 and the total
\* supplied.
C16_ConstructionChecks ==
  lastCall.op = "new" =>
    LET f == ctorArgs.fmt
        o == ctorArgs.options
        totalIsNumber == o.t = "number" \/ (o.t = "object" /\ o.v.total.t = "number")
    IN IF f.t # "string" \/ ~totalIsNumber
       THEN /\ Has(events, "throw")
            /\ total = NoFields.total /\ width = NoFields.width
       ELSE /\ ~Has(events, "throw")
            /\ curr = 0
            /\ total = IF o.t = "number" THEN o.v ELSE o.v.total.v

\* the template with every token but :bar substituted, and :bar removed
LineWithoutBar == ReplaceTokens(Replace(Populate(Bar), BarToken, <<>>), tokens)

\* C15: every render on a terminal, for any configured width, column count
\* and curr, completes and computes a line whose bar is
\* max(0, min(configured width, available width)) glyphs long, of which
\* round(width * clamp(curr / total, 0, 1)) are complete glyphs.
C15_BarWidth ==
  (stream.isTTY /\ Has(events, "render")) =>
    LET str == Populate(Bar)
        available == Max(0, stream.columns - Len(Replace(str, BarToken, <<>>)))
        effective == Max(0, Min(ctorArgs.options.v.width, available))
        completeLength == Round(effective * Ratio(Bar)[1], Ratio(Bar)[2])
        bar == Repeat(<<"=">>, completeLength) \o Repeat(<<"-">>, effective - completeLength)
    IN /\ ~Has(events, "throw")
       /\ Len(bar) = effective
       /\ lastDraw = ReplaceTokens(Replace(str, BarToken, bar), tokens)

\* C20: when the template without :bar, every other token substituted, is no
\* longer than the column count, the line render writes is no longer than the
\* column count.
C20_LineFits ==
  (stream.isTTY /\ DrewLine(events) /\ Len(LineWithoutBar) <= stream.columns) =>
    Len(lastDraw) <= stream.columns

\* C18: with armed timers firing eventually, every tick is followed by a
\* render, in the tick itself or later; and every render reads the value of
\* curr the most recent tick left: the call records that value and, on a
\* terminal, the line on the terminal is the line of the current state.
C18_RenderFollowsTick ==
  /\ [](Has(events, "render") =>
          /\ \A i \in DOMAIN events :
               events[i].op = "render" => events[i].str = IntToStr(curr)
          /\ stream.isTTY => lastDraw = Line(Bar))
  /\ (lastCall.op = "tick" ~> Has(events, "render"))

\* the timer rendered the state that two ticks left
C18_Witness ==
  /\ lastCall.op = "timer"
  /\ nCalls = 2
  /\ curr = 1
  /\ stream.isTTY
  /\ DrewLine(events)
  /\ lastDraw = Line(Bar)

\* under Next, the steps of TimerFired are exactly the steps of TimerFires
TimerFiredIsTimerFires == [][TimerFired <=> TimerFires]_vars

====
